---- MODULE Spec2Model ----
(***************************************************************************)
(* Model of the Benno server's UserResolver (register, login, logout, me,  *)
(* forgotPassword, changePassword) together with the stores it talks to:   *)
(* the User table, the redis key-value store holding the password-reset    *)
(* tokens, and the express-session store.                                  *)
(*                                                                         *)
(* Every await of a handler that reads or writes a shared store is one     *)
(* step of the handler, so requests of different clients interleave at the *)
(* same points as in the program.  argon2.hash / argon2.verify touch only  *)
(* request-local data and are folded into the store step that follows.     *)
(* A client (one browser, one cookie jar) sends its next request after it  *)
(* has received the previous response; different clients run concurrently. *)
(* Strings are sequences of one-character strings.                         *)
(***************************************************************************)
EXTENDS Integers, Sequences, FiniteSets, TLC

(* ------------------------------ bounds -------------------------------- *)

MaxUsers == 2
MaxTokens == 1
MaxSessions == 2
MaxContexts == 3
MaxLoadsPerKey == 2

Clients == {"c1", "c2"}

(* ------------------------------ strings ------------------------------- *)

\* String.prototype.includes
Includes(s, sub) ==
    \E i \in 1..(Len(s) - Len(sub) + 1) : SubSeq(s, i, i + Len(sub) - 1) = sub

Digits == <<"0", "1", "2", "3", "4", "5", "6", "7", "8", "9">>

\* value of one decimal digit character, -1 when it is no digit
DigitValue(ch) ==
    IF \E i \in 1..10 : Digits[i] = ch
    THEN (CHOOSE i \in 1..10 : Digits[i] = ch) - 1
    ELSE -1

\* redis stores a number as its decimal string
RECURSIVE NumToStr(_)
NumToStr(n) ==
    IF n < 10 THEN <<Digits[n + 1]>>
    ELSE NumToStr(n \div 10) \o <<Digits[(n % 10) + 1]>>

\* parseInt: the longest prefix of digits; NaN (here -1) when there is none
RECURSIVE ParseDigits(_, _, _)
ParseDigits(s, i, acc) ==
    IF i > Len(s) \/ DigitValue(s[i]) = -1 THEN acc
    ELSE ParseDigits(s, i + 1, acc * 10 + DigitValue(s[i]))

NaN == -1

ParseInt(s) ==
    IF Len(s) = 0 \/ DigitValue(s[1]) = -1 THEN NaN ELSE ParseDigits(s, 1, 0)

W_username == <<"u", "s", "e", "r", "n", "a", "m", "e">>
W_email == <<"e", "m", "a", "i", "l">>
At == <<"@">>

\* the inputs the clients send
Al == <<"a", "l">>
Bob == <<"b", "o", "b">>
Eve == <<"e", "v", "e">>
BobAtX == <<"b", "@", "x">>
UsernameAtX == W_username \o <<"@", "x">>
Pw == <<"p", "w">>
Pw1 == <<"p", "w", "1">>
Pw2 == <<"p", "w", "2">>

Usernames == {Al, Bob, Eve}
Emails == {Bob, BobAtX, UsernameAtX}
Passwords == {Pw, Pw1, Pw2}
Tokens == 1..MaxTokens

(* --------------------------- argon2 (salted) --------------------------- *)

Alphabet == <<"p", "w", "1", "2", "a", "b", "c">>
HashModulus == 10007
Salts == {11, 23}

CharCode(ch) ==
    IF \E i \in 1..Len(Alphabet) : Alphabet[i] = ch
    THEN CHOOSE i \in 1..Len(Alphabet) : Alphabet[i] = ch
    ELSE 0

RECURSIVE Mix(_, _, _)
Mix(plain, i, acc) ==
    IF i > Len(plain) THEN acc
    ELSE Mix(plain, i + 1, (acc * 31 + CharCode(plain[i]) + 1) % HashModulus)

\* argon2.hash with the salt it drew: an encoded digest carrying the salt
Argon2Hash(plain, salt) ==
    [alg |-> "argon2", salt |-> salt, tag |-> Mix(plain, 1, salt)]

\* a verify that forgets the salt of the digest
Argon2VerifyUnsalted(digest, plain) ==
    digest.tag = Mix(plain, 1, 0)

\* argon2.verify(digest, plain): recompute under the digest's salt
Argon2Verify(digest, plain) ==
    digest.tag = Mix(plain, 1, digest.salt)

(* ------------------------------- state -------------------------------- *)

VARIABLES
    users,         \* the User table: row i has id i
    redis,         \* the key-value store: key -> entry with its expiry time
    nextToken,     \* the next uuid v4() hands out (tokens are never repeated)
    sessionStore,  \* express-session store: session id -> bound userId, 0 = no record
    cookie,        \* per client: the session id its cookie carries, 0 = no cookie
    nextGen,       \* per client: the next fresh session id
    now,           \* the clock, in seconds
    pc,            \* per client: where its request in flight stands
    req,           \* per client: arguments and locals of the request in flight
    resp,          \* per client: the response to its last request
    written,       \* history: per user, who wrote the password last, and from which plaintext
    redeemCount,   \* history: per token, how many changePassword calls returned a user
    issuedAt,      \* history: per token, when redis.set stored it, -1 = never
    issuedFor,     \* history: per token, the id of the user it was issued for, 0 = none
    sessState,     \* history: per client, "fresh" until a request binds its session
                   \* ("authed"), "loggedOut" once logout has destroyed a bound session
    context,       \* per client: the loader instances in the context of its request
    nextLoader,    \* the next loader instance a constructor returns
    loaders        \* per loader instance: its cache, its promises, its pending batch

vars == <<users, redis, nextToken, sessionStore, cookie, nextGen, now,
          pc, req, resp, written, redeemCount, issuedAt, issuedFor, sessState,
          context, nextLoader, loaders>>

NoUser == [id |-> 0]
NoEntry == [val |-> <<>>, exp |-> 0]
Null == <<>>

forgotPasswordPrefix == <<"f", "p", ":">>
Key(token) == <<forgotPasswordPrefix, token>>
Keys == { Key(t) : t \in Tokens }

Sids == Clients \X (1..MaxSessions)

NoReq ==
    [op |-> "none", username |-> <<>>, email |-> <<>>, password |-> <<>>,
     token |-> 0, mailOk |-> TRUE, uid |-> 0, val |-> <<>>, late |-> FALSE]

NoResp ==
    [op |-> "none", kind |-> "none", user |-> 0, field |-> "", message |-> "",
     arg |-> <<>>, mail |-> TRUE, late |-> FALSE]

RespUser(op, id) == [NoResp EXCEPT !.op = op, !.kind = "user", !.user = id]
RespErrors(op, field, message) ==
    [NoResp EXCEPT !.op = op, !.kind = "errors", !.field = field, !.message = message]
RespBool(op, b) == [NoResp EXCEPT !.op = op, !.kind = IF b THEN "true" ELSE "false"]
RespNull(op) == [NoResp EXCEPT !.op = op, !.kind = "null"]
RespThrow(op) == [NoResp EXCEPT !.op = op, !.kind = "throw"]

\* the loaders of a context: one for users by id, one for votes by {postId, userId}
LoaderKinds == {"userLoader", "updootLoader"}
LoaderIds == 1..(2 * MaxContexts)
UserKeys == 1..3
UpdootKeys == {[postId |-> 1, userId |-> k] : k \in 1..2}
KeysOf(kind) == IF kind = "userLoader" THEN UserKeys ELSE UpdootKeys
NoContext == [userLoader |-> 0, updootLoader |-> 0]
Pending == -1
Absent == 0

\* a loader as its constructor returns it: nothing cached, nothing queued;
\* history: `fetches` lists the key arrays handed to the bulk fetch, `handed`
\* the promises returned to the callers of load per key, `loads` counts the calls
NewLoader(kind) ==
    [kind |-> kind,
     cache |-> [k \in KeysOf(kind) |-> 0],
     promises |-> <<>>,
     queue |-> <<>>,
     fetches |-> <<>>,
     handed |-> [k \in KeysOf(kind) |-> {}],
     loads |-> [k \in KeysOf(kind) |-> 0]]

KindOf(id) == IF id % 2 = 1 THEN "userLoader" ELSE "updootLoader"

Init ==
    /\ users = <<>>
    /\ redis = [k \in Keys |-> NoEntry]
    /\ nextToken = 1
    /\ sessionStore = [s \in Sids |-> 0]
    /\ cookie = [c \in Clients |-> 0]
    /\ nextGen = [c \in Clients |-> 1]
    /\ now = 0
    /\ pc = [c \in Clients |-> "idle"]
    /\ req = [c \in Clients |-> NoReq]
    /\ resp = [c \in Clients |-> NoResp]
    /\ written = <<>>
    /\ redeemCount = [t \in Tokens |-> 0]
    /\ issuedAt = [t \in Tokens |-> -1]
    /\ issuedFor = [t \in Tokens |-> 0]
    /\ sessState = [c \in Clients |-> "fresh"]
    /\ context = [c \in Clients |-> NoContext]
    /\ nextLoader = 1
    /\ loaders = [id \in LoaderIds |-> NewLoader(KindOf(id))]

(* ----------------------------- User table ----------------------------- *)

\* User.findOne(id)
FindOneById(id) ==
    IF id \in 1..Len(users) THEN users[id] ELSE NoUser

\* User.findOne({ where: { email } })
FindOneByEmail(email) ==
    IF \E i \in 1..Len(users) : users[i].email = email
    THEN users[CHOOSE i \in 1..Len(users) : users[i].email = email]
    ELSE NoUser

\* a table whose only unique index is the one on username
ViolatedColumnsUsernameOnly(username, email) ==
    { col \in {"username"} : \E i \in 1..Len(users) : users[i].username = username }

\* the columns of a new row that collide with a unique index
ViolatedColumns(username, email) ==
    { col \in {"username", "email"} :
        \E i \in 1..Len(users) :
            \/ col = "username" /\ users[i].username = username
            \/ col = "email" /\ users[i].email = email }

ColumnName(col) == IF col = "username" THEN W_username ELSE W_email

\* the detail of PostgreSQL's unique_violation: Key (<column>)=(<value>) already exists.
UniqueViolation(col, value) ==
    [code |-> "23505",
     detail |-> <<"K", "e", "y", " ", "(">> \o ColumnName(col) \o <<")", "=", "(">>
                \o value \o
                <<")", " ", "a", "l", "r", "e", "a", "d", "y", " ",
                  "e", "x", "i", "s", "t", "s", ".">>]

(* ------------------------------ sessions ------------------------------ *)

\* req.session.userId of a request carrying session id g, 0 = undefined
SessionUserId(c, g) == IF g = 0 THEN 0 ELSE sessionStore[<<c, g>>]

HasLiveSession(c) == SessionUserId(c, cookie[c]) # 0

\* the last session id the client was handed, whether or not its cookie was cleared
HeldSid(c) == nextGen[c] - 1

\* a bind whose session is never saved
BindNotSaved(c, id) == UNCHANGED <<sessionStore, cookie, nextGen>>

\* a bind that stores the id after the user's
BindNextId(c, id) ==
    IF HasLiveSession(c)
    THEN /\ sessionStore' = [sessionStore EXCEPT ![<<c, cookie[c]>>] = id + 1]
         /\ UNCHANGED <<cookie, nextGen>>
    ELSE /\ sessionStore' = [sessionStore EXCEPT ![<<c, nextGen[c]>>] = id + 1]
         /\ cookie' = [cookie EXCEPT ![c] = nextGen[c]]
         /\ nextGen' = [nextGen EXCEPT ![c] = @ + 1]

\* req.session.userId = id, saved by the session middleware when the response ends:
\* into the request's session when the cookie names a stored one, else into a
\* fresh session whose id is set as the cookie
Bind(c, id) ==
    IF HasLiveSession(c)
    THEN /\ sessionStore' = [sessionStore EXCEPT ![<<c, cookie[c]>>] = id]
         /\ UNCHANGED <<cookie, nextGen>>
    ELSE /\ sessionStore' = [sessionStore EXCEPT ![<<c, nextGen[c]>>] = id]
         /\ cookie' = [cookie EXCEPT ![c] = nextGen[c]]
         /\ nextGen' = [nextGen EXCEPT ![c] = @ + 1]

\* a request of client c has returned a user and bound the session
Bound(c) == sessState' = [sessState EXCEPT ![c] = "authed"]

\* a request that may bind needs a session id to be left for it
CanBind(c) == HasLiveSession(c) \/ nextGen[c] <= MaxSessions

loading == <<context, nextLoader, loaders>>

\* the resolvers of UserResolver use no loader
Finish(c, r) ==
    /\ pc' = [pc EXCEPT ![c] = "idle"]
    /\ req' = [req EXCEPT ![c] = NoReq]
    /\ resp' = [resp EXCEPT ![c] = r]
    /\ UNCHANGED loading

Goto(c, label, r) ==
    /\ pc' = [pc EXCEPT ![c] = label]
    /\ req' = [req EXCEPT ![c] = r]
    /\ resp' = [resp EXCEPT ![c] = NoResp]
    /\ UNCHANGED loading

Step(c, label, r) ==
    /\ pc' = [pc EXCEPT ![c] = label]
    /\ req' = [req EXCEPT ![c] = r]
    /\ UNCHANGED <<resp, loading>>

history == <<written, redeemCount, issuedAt, issuedFor, sessState>>
clock == <<now>>
session == <<sessionStore, cookie, nextGen>>

(* --------------------------------- me --------------------------------- *)

\* what me() returns for the userId its session holds
MeResult(userId) ==
    IF userId = 0 THEN RespNull("me")
    ELSE IF FindOneById(userId) = NoUser THEN RespNull("me")
    ELSE RespUser("me", FindOneById(userId).id)

\* me(): the request carries the session id g, the cookie's or the one held before
MeWith(c, g) ==
    /\ pc[c] = "idle"
    /\ Finish(c, MeResult(SessionUserId(c, g)))
    /\ UNCHANGED <<users, redis, nextToken, session, clock, history>>

Me(c) == \E g \in {cookie[c], HeldSid(c)} : MeWith(c, g)

(* ----------------------------- email field ---------------------------- *)

\* an email resolver that shows the email to every logged-in session
EmailResultForAnyUser(user, userId) ==
    IF userId = 0 \/ user.id = 0 THEN <<>> ELSE user.email

\* the email field of a returned user, for the userId of the viewing session
EmailResult(user, userId) ==
    IF userId = 0 \/ user.id = 0 THEN <<>>
    ELSE IF userId = user.id THEN user.email
    ELSE <<>>

\* a response to client c carries the row of user id, and its email field is resolved
Email(c, id) ==
    /\ pc[c] = "idle"
    /\ FindOneById(id) # NoUser
    /\ Finish(c, [NoResp EXCEPT !.op = "email", !.kind = "string", !.user = id,
                     !.arg = EmailResult(FindOneById(id), SessionUserId(c, cookie[c]))])
    /\ UNCHANGED <<users, redis, nextToken, session, clock, history>>

(* ------------------------------- loaders ------------------------------ *)

CreateUserLoader == NewLoader("userLoader")
CreateUpdootLoader == NewLoader("updootLoader")

\* a context that hands every request the two loaders made at startup
ContextSharedLoaders(c) ==
    /\ pc[c] = "idle"
    /\ nextLoader + 1 <= 2 * MaxContexts
    /\ context' = [context EXCEPT ![c] = [userLoader |-> 1, updootLoader |-> 2]]
    /\ nextLoader' = nextLoader + 2
    /\ UNCHANGED loaders
    /\ pc' = [pc EXCEPT ![c] = "resolving"]
    /\ req' = [req EXCEPT ![c] = [NoReq EXCEPT !.op = "posts"]]
    /\ resp' = [resp EXCEPT ![c] = NoResp]
    /\ UNCHANGED <<users, redis, nextToken, session, now, history>>

\* the context function runs for a request whose resolvers use the loaders (a
\* query of PostResolver): both loader constructors are called
Context(c) ==
    /\ pc[c] = "idle"
    /\ nextLoader + 1 <= 2 * MaxContexts
    /\ context' = [context EXCEPT ![c] =
                       [userLoader |-> nextLoader, updootLoader |-> nextLoader + 1]]
    /\ loaders' = [loaders EXCEPT ![nextLoader] = CreateUserLoader,
                                  ![nextLoader + 1] = CreateUpdootLoader]
    /\ nextLoader' = nextLoader + 2
    /\ pc' = [pc EXCEPT ![c] = "resolving"]
    /\ req' = [req EXCEPT ![c] = [NoReq EXCEPT !.op = "posts"]]
    /\ resp' = [resp EXCEPT ![c] = NoResp]
    /\ UNCHANGED <<users, redis, nextToken, session, clock, history>>

\* a load that never looks into the cache
LoadOnUncached(l, key) ==
    [l EXCEPT !.cache[key] = Len(l.promises) + 1,
              !.promises = Append(@, [key |-> key, value |-> Pending]),
              !.queue = Append(@, Len(l.promises) + 1),
              !.handed[key] = @ \cup {Len(l.promises) + 1},
              !.loads[key] = @ + 1]

\* load(key) on loader l: the promise cached for the key, or a new promise
\* that joins the batch to be dispatched
LoadOn(l, key) ==
    IF l.cache[key] # 0
    THEN [l EXCEPT !.handed[key] = @ \cup {l.cache[key]}, !.loads[key] = @ + 1]
    ELSE [l EXCEPT !.cache[key] = Len(l.promises) + 1,
                   !.promises = Append(@, [key |-> key, value |-> Pending]),
                   !.queue = Append(@, Len(l.promises) + 1),
                   !.handed[key] = @ \cup {Len(l.promises) + 1},
                   !.loads[key] = @ + 1]

\* a resolver of the request of client c calls load(key) on a loader of its context
Load(c, kind, key) ==
    /\ pc[c] = "resolving"
    /\ loaders[context[c][kind]].loads[key] < MaxLoadsPerKey
    /\ loaders' = [loaders EXCEPT ![context[c][kind]] = LoadOn(@, key)]
    /\ UNCHANGED <<users, redis, nextToken, session, clock, pc, req, resp, history,
                   context, nextLoader>>

Failed == -2

\* what the bulk fetch maps a key to: the user's id or the vote's value, Absent
\* for a key without a row
BatchFetch(kind, key, vote) ==
    IF kind = "userLoader"
    THEN IF FindOneById(key) = NoUser THEN Absent ELSE FindOneById(key).id
    ELSE vote

\* the batch of loader l is dispatched: one bulk fetch over the queued keys,
\* whose result (or failure) settles every promise of the batch
DispatchOn(l, ok, vote) ==
    [l EXCEPT !.fetches = Append(@, [i \in 1..Len(l.queue) |-> l.promises[l.queue[i]].key]),
              !.promises = [p \in 1..Len(l.promises) |->
                  IF \E i \in 1..Len(l.queue) : l.queue[i] = p
                  THEN [l.promises[p] EXCEPT !.value =
                           IF ok THEN BatchFetch(l.kind, l.promises[p].key, vote)
                           ELSE Failed]
                  ELSE l.promises[p]],
              !.queue = <<>>]

\* the scheduler reaches the dispatch point of a loader of the request of client c
Dispatch(c, kind, ok, vote) ==
    /\ pc[c] = "resolving"
    /\ loaders[context[c][kind]].queue # <<>>
    /\ loaders' = [loaders EXCEPT ![context[c][kind]] = DispatchOn(@, ok, vote)]
    /\ UNCHANGED <<users, redis, nextToken, session, clock, pc, req, resp, history,
                   context, nextLoader>>

\* every load has settled and the response is sent: the request ends, and its
\* context and the loaders only the context referred to are garbage
Respond(c) ==
    /\ pc[c] = "resolving"
    /\ \A kind \in LoaderKinds : loaders[context[c][kind]].queue = <<>>
    /\ context' = [context EXCEPT ![c] = NoContext]
    /\ loaders' = [id \in LoaderIds |->
                      IF \E kind \in LoaderKinds : context[c][kind] = id
                      THEN NewLoader(KindOf(id)) ELSE loaders[id]]
    /\ pc' = [pc EXCEPT ![c] = "idle"]
    /\ req' = [req EXCEPT ![c] = NoReq]
    /\ resp' = [resp EXCEPT ![c] = RespBool("posts", TRUE)]
    /\ UNCHANGED <<users, redis, nextToken, session, clock, history, nextLoader>>

(* ------------------------------ register ------------------------------ *)

\* a validation that looks at the email before the username
RegisterInvalidEmailFirst(options) ==
    IF ~Includes(options.email, At) THEN "email"
    ELSE IF Len(options.username) <= 2 THEN "username"
    ELSE IF Len(options.password) <= 2 THEN "password"
    ELSE "none"

\* the validation at the head of register: the field of the first failing rule
RegisterInvalid(options) ==
    IF Len(options.username) <= 2 THEN "username"
    ELSE IF ~Includes(options.email, At) THEN "email"
    ELSE IF Len(options.password) <= 2 THEN "password"
    ELSE "none"

RegisterInvalidMessage(field) ==
    IF field = "username" THEN "Username should be at least 3 characters long !"
    ELSE IF field = "email" THEN "This is not a valid email !"
    ELSE "Password should be at least 3 characters long !"

\* the catch block of register
RegisterCatch(error) ==
    IF error.code = "23505" /\ Includes(error.detail, W_username)
    THEN RespErrors("register", "username", "An account with this username already exists !")
    ELSE IF error.code = "23505" /\ Includes(error.detail, W_email)
    THEN RespErrors("register", "email", "An account with this email already exists !")
    ELSE RespErrors("register", "username",
                    "An unknown error occured when creating your account !")

\* register is called: validation, then argon2.hash and the insert are awaited
Register(c, options) ==
    /\ pc[c] = "idle"
    /\ CanBind(c)
    /\ Len(users) + Cardinality({d \in Clients : pc[d] = "reg_insert"}) < MaxUsers
    /\ IF RegisterInvalid(options) # "none"
       THEN Finish(c, RespErrors("register", RegisterInvalid(options),
                                 RegisterInvalidMessage(RegisterInvalid(options))))
       ELSE Goto(c, "reg_insert",
                 [NoReq EXCEPT !.op = "register", !.username = options.username,
                               !.email = options.email, !.password = options.password])
    /\ UNCHANGED <<users, redis, nextToken, session, clock, history>>

\* the insert runs: a row with a fresh id, or a unique violation
RegisterInsert(c) ==
    /\ pc[c] = "reg_insert"
    /\ IF ViolatedColumns(req[c].username, req[c].email) = {}
       THEN \E salt \in Salts :
              /\ users' = Append(users,
                    [id |-> Len(users) + 1, username |-> req[c].username,
                     email |-> req[c].email,
                     password |-> Argon2Hash(req[c].password, salt)])
              /\ written' = Append(written, [by |-> "register", plain |-> req[c].password])
              /\ Bind(c, Len(users) + 1)
              /\ Bound(c)
              /\ Finish(c, RespUser("register", Len(users) + 1))
              /\ UNCHANGED <<redeemCount, issuedAt, issuedFor>>
       ELSE \E col \in ViolatedColumns(req[c].username, req[c].email) :
              /\ Finish(c, RegisterCatch(UniqueViolation(col,
                    IF col = "username" THEN req[c].username ELSE req[c].email)))
              /\ UNCHANGED <<users, session, history>>
    /\ UNCHANGED <<redis, nextToken, clock>>

(* -------------------------------- login ------------------------------- *)

Login(c, options) ==
    /\ pc[c] = "idle"
    /\ CanBind(c)
    /\ Goto(c, "login_find",
            [NoReq EXCEPT !.op = "login", !.email = options.email,
                          !.password = options.password])
    /\ UNCHANGED <<users, redis, nextToken, session, clock, history>>

\* a login that blames the password when the email is unknown
LoginResultBlamesPassword(user, password) ==
    IF user = NoUser \/ ~Argon2Verify(user.password, password)
    THEN RespErrors("login", "password", "This password is not valid !")
    ELSE RespUser("login", user.id)

\* what login answers once findOne has returned `user`
LoginResult(user, password) ==
    IF user = NoUser
    THEN RespErrors("login", "email", "This account doesn't exist !")
    ELSE IF ~Argon2Verify(user.password, password)
    THEN RespErrors("login", "password", "This password is not valid !")
    ELSE RespUser("login", user.id)

\* findOne returns; the password is verified against the row read
LoginFind(c) ==
    /\ pc[c] = "login_find"
    /\ LET r == LoginResult(FindOneByEmail(req[c].email), req[c].password) IN
         /\ Finish(c, r)
         /\ IF r.kind = "user"
            THEN /\ Bind(c, r.user)
                 /\ Bound(c)
            ELSE UNCHANGED <<session, sessState>>
    /\ UNCHANGED <<users, redis, nextToken, clock, written, redeemCount, issuedAt,
                   issuedFor>>

(* ------------------------------- logout ------------------------------- *)

\* a logout that clears the cookie and leaves the session record in the store
LogoutClearsCookieOnly(c, destroyed) ==
    /\ pc[c] = "idle"
    /\ IF destroyed
       THEN /\ cookie' = [cookie EXCEPT ![c] = 0]
            /\ UNCHANGED <<sessionStore, nextGen>>
       ELSE UNCHANGED <<sessionStore, cookie, nextGen>>
    /\ sessState' = [sessState EXCEPT ![c] =
                        IF destroyed /\ @ = "authed" THEN "loggedOut" ELSE @]
    /\ Finish(c, RespBool("logout", destroyed))
    /\ UNCHANGED <<users, redis, nextToken, now, written, redeemCount, issuedAt,
                   issuedFor>>

\* a logout that clears the cookie before it looks at the error of destroy
LogoutAlwaysClearsCookie(c, destroyed) ==
    /\ pc[c] = "idle"
    /\ IF destroyed
       THEN sessionStore' = [s \in Sids |->
                IF s = <<c, cookie[c]>> THEN 0 ELSE sessionStore[s]]
       ELSE UNCHANGED sessionStore
    /\ cookie' = [cookie EXCEPT ![c] = 0]
    /\ UNCHANGED nextGen
    /\ sessState' = [sessState EXCEPT ![c] =
                        IF destroyed /\ @ = "authed" THEN "loggedOut" ELSE @]
    /\ Finish(c, RespBool("logout", destroyed))
    /\ UNCHANGED <<users, redis, nextToken, now, written, redeemCount, issuedAt,
                   issuedFor>>

\* req.session.destroy calls back with or without an error
Logout(c, destroyed) ==
    /\ pc[c] = "idle"
    /\ IF destroyed
       THEN /\ sessionStore' = [s \in Sids |->
                 IF s = <<c, cookie[c]>> THEN 0 ELSE sessionStore[s]]
            /\ cookie' = [cookie EXCEPT ![c] = 0]
            /\ UNCHANGED nextGen
       ELSE UNCHANGED session
    /\ sessState' = [sessState EXCEPT ![c] =
                        IF destroyed /\ @ = "authed" THEN "loggedOut" ELSE @]
    /\ Finish(c, RespBool("logout", destroyed))
    /\ UNCHANGED <<users, redis, nextToken, clock, written, redeemCount, issuedAt,
                   issuedFor>>

(* --------------------------- forgotPassword --------------------------- *)

\* const threeDaysInMilliseconds = 1000 * 60 * 60 * 24 * 3
threeDaysInMilliseconds == 1000 * 60 * 60 * 24 * 3

\* redis SET key value <mode> <n>: the lifetime in seconds that mode and n ask for
ExpirySeconds(mode, n) ==
    IF mode = "ex" THEN n
    ELSE IF mode = "px" THEN n \div 1000
    ELSE 0

\* the lifetime forgotPassword asks redis for
TokenLifetime == ExpirySeconds("ex", threeDaysInMilliseconds)

\* redis GET: the value of a key that is set and has not expired, else null
RedisGet(key) ==
    IF redis[key] # NoEntry /\ now < redis[key].exp THEN redis[key].val ELSE Null

ForgotPassword(c, email, mailOk) ==
    /\ pc[c] = "idle"
    /\ nextToken + Cardinality({d \in Clients : pc[d] = "fp_find"}) <= MaxTokens
    /\ Goto(c, "fp_find",
            [NoReq EXCEPT !.op = "forgotPassword", !.email = email, !.mailOk = mailOk])
    /\ UNCHANGED <<users, redis, nextToken, session, clock, history>>

ForgotResp(r, kind) ==
    [NoResp EXCEPT !.op = "forgotPassword", !.kind = kind, !.arg = r.email,
                   !.mail = r.mailOk]

\* findOne returns: no user, return true; else draw the token and issue redis.set
ForgotFind(c) ==
    /\ pc[c] = "fp_find"
    /\ IF FindOneByEmail(req[c].email) = NoUser
       THEN /\ Finish(c, ForgotResp(req[c], "true"))
            /\ UNCHANGED nextToken
       ELSE /\ Step(c, "fp_set",
                    [req[c] EXCEPT !.uid = FindOneByEmail(req[c].email).id,
                                   !.token = nextToken])
            /\ nextToken' = nextToken + 1
    /\ UNCHANGED <<users, redis, session, clock, history>>

\* redis runs the SET with its expiry; sendEmail is awaited next
ForgotSet(c) ==
    /\ pc[c] = "fp_set"
    /\ redis' = [redis EXCEPT ![Key(req[c].token)] =
                    [val |-> NumToStr(req[c].uid), exp |-> now + TokenLifetime]]
    /\ issuedAt' = [issuedAt EXCEPT ![req[c].token] = now]
    /\ issuedFor' = [issuedFor EXCEPT ![req[c].token] = req[c].uid]
    /\ Step(c, "fp_send", req[c])
    /\ UNCHANGED <<users, nextToken, session, clock, written, redeemCount, sessState>>

\* how forgotPassword ends once sendEmail has resolved (sent) or rejected
ForgotSendOutcome(sent) == IF sent THEN "true" ELSE "throw"

ForgotSend(c) ==
    /\ pc[c] = "fp_send"
    /\ Finish(c, ForgotResp(req[c], ForgotSendOutcome(req[c].mailOk)))
    /\ UNCHANGED <<users, redis, nextToken, session, clock, history>>

(* --------------------------- changePassword --------------------------- *)

TokenExpired == RespErrors("changePassword", "newPassword", "The token expired !")

\* a response of changePassword, marked with the token and the flag of its request
ChangeResp(r, answer) == [answer EXCEPT !.arg = r.token, !.late = r.late]

\* a changePassword that deletes the token before it looks at the new password
ChangePasswordBurnsToken(c, token, newPassword) ==
    /\ pc[c] = "idle"
    /\ CanBind(c)
    /\ IF Len(newPassword) <= 2
       THEN /\ Finish(c, [RespErrors("changePassword", "newPassword",
                                     "Password should be at least 3 characters long !")
                             EXCEPT !.arg = token])
            /\ redis' = [redis EXCEPT ![Key(token)] = NoEntry]
       ELSE /\ Goto(c, "cp_get",
                    [NoReq EXCEPT !.op = "changePassword", !.token = token,
                                  !.password = newPassword,
                                  !.late = redeemCount[token] > 0])
            /\ UNCHANGED redis
    /\ UNCHANGED <<users, nextToken, session, now, history>>

ChangePassword(c, token, newPassword) ==
    /\ pc[c] = "idle"
    /\ CanBind(c)
    /\ IF Len(newPassword) <= 2
       THEN Finish(c, [RespErrors("changePassword", "newPassword",
                                  "Password should be at least 3 characters long !")
                          EXCEPT !.arg = token])
       ELSE Goto(c, "cp_get",
                 [NoReq EXCEPT !.op = "changePassword", !.token = token,
                               !.password = newPassword,
                               !.late = redeemCount[token] > 0])
    /\ UNCHANGED <<users, redis, nextToken, session, clock, history>>

\* redis.get returns
ChangeGet(c) ==
    /\ pc[c] = "cp_get"
    /\ IF RedisGet(Key(req[c].token)) = Null
       THEN Finish(c, ChangeResp(req[c], TokenExpired))
       ELSE Step(c, "cp_find", [req[c] EXCEPT !.val = RedisGet(Key(req[c].token))])
    /\ UNCHANGED <<users, redis, nextToken, session, clock, history>>

\* User.findOne(parseInt(userId)) returns
ChangeFind(c) ==
    /\ pc[c] = "cp_find"
    /\ IF FindOneById(ParseInt(req[c].val)) = NoUser
       THEN Finish(c, ChangeResp(req[c], RespErrors("changePassword", "newPassword",
                                                     "This user doesn't exist !")))
       ELSE Step(c, "cp_update",
                 [req[c] EXCEPT !.uid = FindOneById(ParseInt(req[c].val)).id])
    /\ UNCHANGED <<users, redis, nextToken, session, clock, history>>

\* an update that writes the new password as it was supplied
ChangeUpdateStoresPlain(c) ==
    /\ pc[c] = "cp_update"
    /\ users' = [users EXCEPT ![req[c].uid].password =
                     [alg |-> "none", plain |-> req[c].password]]
    /\ written' = [written EXCEPT ![req[c].uid] =
                       [by |-> "changePassword", plain |-> req[c].password]]
    /\ Step(c, "cp_del", req[c])
    /\ UNCHANGED <<redis, nextToken, session, now, redeemCount, issuedAt, issuedFor,
                   sessState>>

\* the new password is hashed and User.update runs
ChangeUpdate(c) ==
    /\ pc[c] = "cp_update"
    /\ \E salt \in Salts :
         users' = [users EXCEPT ![req[c].uid].password =
                       Argon2Hash(req[c].password, salt)]
    /\ written' = [written EXCEPT ![req[c].uid] =
                       [by |-> "changePassword", plain |-> req[c].password]]
    /\ Step(c, "cp_del", req[c])
    /\ UNCHANGED <<redis, nextToken, session, clock, redeemCount, issuedAt, issuedFor,
                   sessState>>

\* a last step that forgets redis.del
ChangeDelKeepsToken(c) ==
    /\ pc[c] = "cp_del"
    /\ UNCHANGED redis
    /\ Bind(c, req[c].uid)
    /\ Bound(c)
    /\ redeemCount' = [redeemCount EXCEPT ![req[c].token] = @ + 1]
    /\ Finish(c, ChangeResp(req[c], RespUser("changePassword", req[c].uid)))
    /\ UNCHANGED <<users, nextToken, now, written, issuedAt, issuedFor>>

\* a last step that binds the session only when no user is bound to it yet
ChangeDelKeepsBinding(c) ==
    /\ pc[c] = "cp_del"
    /\ redis' = [redis EXCEPT ![Key(req[c].token)] = NoEntry]
    /\ IF HasLiveSession(c) THEN UNCHANGED <<sessionStore, cookie, nextGen>>
       ELSE Bind(c, req[c].uid)
    /\ Bound(c)
    /\ redeemCount' = [redeemCount EXCEPT ![req[c].token] = @ + 1]
    /\ Finish(c, ChangeResp(req[c], RespUser("changePassword", req[c].uid)))
    /\ UNCHANGED <<users, nextToken, now, written, issuedAt, issuedFor>>

\* redis.del runs, the session is bound and the user returned
ChangeDel(c) ==
    /\ pc[c] = "cp_del"
    /\ redis' = [redis EXCEPT ![Key(req[c].token)] = NoEntry]
    /\ Bind(c, req[c].uid)
    /\ Bound(c)
    /\ redeemCount' = [redeemCount EXCEPT ![req[c].token] = @ + 1]
    /\ Finish(c, ChangeResp(req[c], RespUser("changePassword", req[c].uid)))
    /\ UNCHANGED <<users, nextToken, clock, written, issuedAt, issuedFor>>

(* -------------------------------- clock ------------------------------- *)

SecondsPerDay == 60 * 60 * 24
ThreeDays == 3 * SecondsPerDay

\* the times at which the clock is looked at: the start, a day later, four days
\* later, and the moment a token stored at the start expires in redis
ClockTimes == {0, SecondsPerDay, 4 * SecondsPerDay, TokenLifetime}

Tick(t) ==
    /\ t > now
    /\ now' = t
    /\ UNCHANGED <<users, redis, nextToken, session, pc, req, resp, history, loading>>

(* ---------------------------- specification --------------------------- *)

RegisterInputs == [username : Usernames, email : Emails, password : Passwords]
LoginInputs == [email : Emails, password : Passwords]

SessionRequests ==
    \/ \E c \in Clients : Me(c)
    \/ \E c \in Clients, destroyed \in BOOLEAN : Logout(c, destroyed)

RegisterRequests(regs) ==
    \/ \E c \in Clients, options \in regs : Register(c, options)
    \/ \E c \in Clients : RegisterInsert(c)

LoginRequests(logins) ==
    \/ \E c \in Clients, options \in logins : Login(c, options)
    \/ \E c \in Clients : LoginFind(c)

EmailRequests == \E c \in Clients, id \in 1..MaxUsers : Email(c, id)

\* `loads` are the <<loader, key>> pairs the resolvers of a request may load
LoaderRequests(clients, loads) ==
    \/ \E c \in clients : Context(c)
    \/ \E c \in clients, load \in loads : Load(c, load[1], load[2])
    \/ \E c \in clients, kind \in LoaderKinds, ok \in BOOLEAN, vote \in {Absent, 1} :
          Dispatch(c, kind, ok, vote)
    \/ \E c \in clients : Respond(c)

ForgotRequests(emails) ==
    \/ \E c \in Clients, email \in emails, mailOk \in BOOLEAN :
          ForgotPassword(c, email, mailOk)
    \/ \E c \in Clients : ForgotFind(c)
    \/ \E c \in Clients : ForgotSet(c)
    \/ \E c \in Clients : ForgotSend(c)

ChangeRequests(tokens, passwords) ==
    \/ \E c \in Clients, token \in tokens, newPassword \in passwords :
          ChangePassword(c, token, newPassword)
    \/ \E c \in Clients : ChangeGet(c)
    \/ \E c \in Clients : ChangeFind(c)
    \/ \E c \in Clients : ChangeUpdate(c)
    \/ \E c \in Clients : ChangeDel(c)

\* the whole server: every request with every input, and the clock
Next ==
    \/ SessionRequests
    \/ EmailRequests
    \/ LoaderRequests(Clients, ({"userLoader"} \X UserKeys) \cup ({"updootLoader"} \X UpdootKeys))
    \/ RegisterRequests(RegisterInputs)
    \/ LoginRequests(LoginInputs)
    \/ ForgotRequests(Emails)
    \/ ChangeRequests(Tokens, Passwords)
    \/ \E t \in ClockTimes : Tick(t)

Spec == Init /\ [][Next]_vars

BobOptions == [username |-> Bob, email |-> BobAtX, password |-> Pw1]

\* the password-reset protocol: one account, its reset tokens and the clock
NextReset ==
    \/ RegisterRequests({BobOptions})
    \/ ForgotRequests({BobAtX})
    \/ ChangeRequests(Tokens, {Pw, Pw2})
    \/ \E t \in ClockTimes : Tick(t)

SpecReset == Init /\ [][NextReset]_vars

\* forgotPassword alone, for a registered and for an unregistered email
NextForgot ==
    \/ RegisterRequests({BobOptions})
    \/ ForgotRequests({BobAtX, UsernameAtX})

SpecForgot == Init /\ [][NextForgot]_vars

\* accounts: registration with every input, and login
NextAccounts ==
    \/ RegisterRequests(RegisterInputs)
    \/ LoginRequests(LoginInputs)

SpecAccounts == Init /\ [][NextAccounts]_vars

\* sessions: every request that binds or destroys a session, and me
NextSessions ==
    \/ SessionRequests
    \/ RegisterRequests({BobOptions})
    \/ LoginRequests({[email |-> BobAtX, password |-> p] : p \in {Pw1, Pw2}})
    \/ ForgotRequests({BobAtX})
    \/ ChangeRequests(Tokens, {Pw2})

SpecSessions == Init /\ [][NextSessions]_vars

EveOptions == [username |-> Eve, email |-> UsernameAtX, password |-> Pw2]

\* the fields of returned users: two accounts, their sessions and the email field
NextFields ==
    \/ SessionRequests
    \/ EmailRequests
    \/ RegisterRequests({BobOptions, EveOptions})
    \/ LoginRequests({[email |-> o.email, password |-> o.password] :
                          o \in {BobOptions, EveOptions}})

SpecFields == Init /\ [][NextFields]_vars

\* one request and its loaders: every order of loads and dispatches of the
\* user keys, while the account the keys may name is registered
NextBatch ==
    \/ LoaderRequests({"c1"}, {"userLoader"} \X UserKeys)
    \/ RegisterRequests({BobOptions})

SpecBatch == Init /\ [][NextBatch]_vars

\* the contexts of concurrent and of successive requests
NextContexts ==
    LoaderRequests(Clients, {<<"userLoader", 1>>, <<"updootLoader", [postId |-> 1, userId |-> 1]>>})

SpecContexts == Init /\ [][NextContexts]_vars

\* a password change among two accounts: the reset of one account's password,
\* by its owner or by a session bound to the other account, and logins with the
\* old and the new password
NextChange ==
    \/ RegisterRequests({BobOptions, EveOptions})
    \/ LoginRequests({[email |-> BobAtX, password |-> p] : p \in {Pw1, Pw2}})
    \/ ForgotRequests({BobAtX})
    \/ ChangeRequests(Tokens, {Pw, Pw2})

SpecChange == Init /\ [][NextChange]_vars

(* ======================= password-reset tokens ======================== *)

\* a token the reset-token contract still promises to honour: stored by
\* forgotPassword less than three days ago, and redeemed by no call so far
Redeemable(token) ==
    /\ issuedAt[token] >= 0
    /\ now < issuedAt[token] + ThreeDays
    /\ redeemCount[token] = 0

\* C1: a reset token redeems exactly once.  A changePassword call with a
\* password of at least 3 characters whose redis.get reaches a redeemable token
\* goes on to find the user, to write the password and to return the user the
\* token was issued for; a call made after a call with the same token has
\* returned a user ends at its redis.get with the 'token expired' error on
\* newPassword and leaves the users, the token store and the sessions as they were.
C1_RedeemsExactlyOnce ==
    [][\A c \in Clients :
         /\ ChangeGet(c) /\ Redeemable(req[c].token) => pc'[c] = "cp_find"
         /\ ChangeFind(c) => pc'[c] = "cp_update" /\ req'[c].uid = issuedFor[req[c].token]
         /\ ChangeUpdate(c) =>
               /\ pc'[c] = "cp_del"
               /\ Argon2Verify(users'[req[c].uid].password, req[c].password)
         /\ ChangeDel(c) =>
               resp'[c] = ChangeResp(req[c], RespUser("changePassword",
                                                      issuedFor[req[c].token]))
         /\ pc[c] = "cp_get" /\ req[c].late /\ pc'[c] # pc[c] =>
               /\ resp'[c] = ChangeResp(req[c], TokenExpired)
               /\ UNCHANGED <<users, redis, session>>
      ]_vars

\* C1 witness: one client holds the user returned for a token, another the
\* 'token expired' answer to a later call with the same token
C1_Witness ==
    \E c, d \in Clients :
        /\ resp[c].op = "changePassword" /\ resp[c].kind = "user"
        /\ resp[d].op = "changePassword" /\ resp[d].late
        /\ resp[d].arg = resp[c].arg
        /\ resp[d].message = "The token expired !"

\* C2: of the changePassword calls carrying one token at most one returns a user
C2_AtMostOneRedemption ==
    \A t \in Tokens : redeemCount[t] <= 1

\* C3: a changePassword call whose redis.get runs more than 3 days after
\* forgotPassword stored the token returns the expired-token error
C3_UnusableAfterThreeDays ==
    [][\A c \in Clients :
         ChangeGet(c) /\ issuedAt[req[c].token] >= 0
                      /\ now > issuedAt[req[c].token] + ThreeDays
            => resp'[c] = ChangeResp(req[c], TokenExpired)
      ]_vars

\* C4: forgotPassword completes with the value true, whether or not the user
\* exists and whether or not the email was sent
C4_ForgotPasswordAlwaysTrue ==
    \A c \in Clients : resp[c].op = "forgotPassword" => resp[c].kind = "true"

\* C5: two forgotPassword calls for the same email under the same behaviour of
\* the email sender end the same way, whether or not the email was registered
C5_ForgotPasswordHidesExistence ==
    \A c, d \in Clients :
        /\ resp[c].op = "forgotPassword" /\ resp[d].op = "forgotPassword"
        /\ resp[c].arg = resp[d].arg /\ resp[c].mail = resp[d].mail
        => resp[c].kind = resp[d].kind

(* ============================== accounts ============================== *)

\* the inputs the register contract calls valid
ValidRegistration(options) ==
    /\ Len(options.username) >= 3
    /\ Includes(options.email, At)
    /\ Len(options.password) >= 3

ValidRegistrations == {options \in RegisterInputs : ValidRegistration(options)}

\* the user whose row holds this email, 0 when there is none
UserWithEmail(email) ==
    IF \E i \in 1..Len(users) : users[i].email = email
    THEN CHOOSE i \in 1..Len(users) : users[i].email = email
    ELSE 0

\* C6: register finds no fault with any input whose username has at least 3
\* characters, whose email contains '@' and whose password has at least 3
\* characters; when no row has that username or email as the insert runs, it
\* returns the created user; a login with that email and the password the row
\* was registered with then returns that same user.
C6_RegisterThenLogin ==
    /\ \A options \in ValidRegistrations : RegisterInvalid(options) = "none"
    /\ [][\A c \in Clients :
         /\ RegisterInsert(c) /\ ViolatedColumns(req[c].username, req[c].email) = {}
               => /\ resp'[c] = RespUser("register", Len(users'))
                  /\ Len(users') = Len(users) + 1
                  /\ users'[Len(users')].username = req[c].username
                  /\ users'[Len(users')].email = req[c].email
         /\ LoginFind(c) /\ UserWithEmail(req[c].email) # 0
                         /\ written[UserWithEmail(req[c].email)] =
                               [by |-> "register", plain |-> req[c].password]
               => resp'[c] = RespUser("login", UserWithEmail(req[c].email))
      ]_vars

\* C6 witness: a client is logged in, by login, as a user another client registered
C6_Witness ==
    \E c, d \in Clients :
        /\ c # d
        /\ resp[c].op = "register" /\ resp[c].kind = "user"
        /\ resp[d] = RespUser("login", resp[c].user)

\* C7: when the insert collides on exactly one unique column, register returns
\* an error on the field of that column
C7_ConflictNamesColumn ==
    [][\A c \in Clients, col \in {"username", "email"} :
         RegisterInsert(c) /\ ViolatedColumns(req[c].username, req[c].email) = {col}
            => resp'[c].kind = "errors" /\ resp'[c].field = col
      ]_vars

\* C8: login with an email no user has returns an error on field 'email';
\* login with a user's email and a password other than the one last written
\* for that user returns an error on field 'password'; neither returns a user.
C8_LoginReportsField ==
    [][\A c \in Clients :
         /\ LoginFind(c) /\ UserWithEmail(req[c].email) = 0
               => resp'[c].kind = "errors" /\ resp'[c].field = "email"
                  /\ resp'[c].user = 0
         /\ LoginFind(c) /\ UserWithEmail(req[c].email) # 0
                         /\ written[UserWithEmail(req[c].email)].plain # req[c].password
               => resp'[c].kind = "errors" /\ resp'[c].field = "password"
                  /\ resp'[c].user = 0
      ]_vars

\* C8 witness: with a user registered, one client was refused for the email
\* and another for the password
C8_Witness ==
    /\ Len(users) > 0
    /\ \E c, d \in Clients :
        /\ resp[c].op = "login" /\ resp[c].field = "email"
        /\ resp[d].op = "login" /\ resp[d].field = "password"

(* ============================== sessions ============================== *)

\* C9: me() returns null while no request of the client has bound its session,
\* and returns the user that register or login has just returned to the client
C9_MeFollowsSession ==
    [][\A c \in Clients :
         /\ \A g \in {cookie[c], HeldSid(c)} :
               MeWith(c, g) /\ sessState[c] = "fresh" => resp'[c] = RespNull("me")
         /\ MeWith(c, cookie[c]) /\ resp[c].op \in {"register", "login"}
                                 /\ resp[c].kind = "user"
               => resp'[c] = RespUser("me", resp[c].user)
      ]_vars

\* C9 witness: me() has returned the user of a bound session
C9_Witness ==
    \E c \in Clients :
        /\ resp[c].op = "me" /\ resp[c].kind = "user"
        /\ sessState[c] = "authed"
        /\ resp[c].user = SessionUserId(c, cookie[c])

\* C10: once logout has destroyed a bound session, me() on the session id the
\* client held returns null, until a later request binds a session again
C10_LogoutThenMe ==
    [][\A c \in Clients :
         \A g \in {cookie[c], HeldSid(c)} :
            MeWith(c, g) /\ sessState[c] = "loggedOut" => resp'[c] = RespNull("me")
      ]_vars

\* C10 witness: me() has returned null to a client that had logged out
C10_Witness ==
    \E c \in Clients :
        /\ sessState[c] = "loggedOut"
        /\ HeldSid(c) > 0
        /\ resp[c] = RespNull("me")

\* C11: when the session store fails to destroy the session, logout returns
\* false, the session record with its userId stays as it was and the cookie is
\* not cleared; when destroy succeeds logout returns true, the record is gone
\* and the cookie is cleared; logout never ends in a failure
C11_LogoutFailureLeavesSession ==
    [][\A c \in Clients :
         /\ Logout(c, FALSE) =>
               /\ resp'[c] = RespBool("logout", FALSE)
               /\ UNCHANGED <<sessionStore, cookie, nextGen>>
         /\ Logout(c, TRUE) =>
               /\ resp'[c] = RespBool("logout", TRUE)
               /\ cookie'[c] = 0
               /\ SessionUserId(c, cookie[c])' = 0
               /\ \A s \in Sids : s # <<c, cookie[c]>> => sessionStore'[s] = sessionStore[s]
         /\ resp'[c].op = "logout" => resp'[c].kind \in {"true", "false"}
      ]_vars

\* C11 witness: logout has returned false to a client whose session is still
\* stored, bound to a user and named by its cookie
C11_Witness ==
    \E c \in Clients :
        /\ resp[c] = RespBool("logout", FALSE)
        /\ cookie[c] # 0
        /\ SessionUserId(c, cookie[c]) \in 1..Len(users)

(* ============================ email field ============================= *)

\* C12: email redaction.  The email field returned to a session for a user is
\* the stored email exactly when the session's bound userId is the user's id;
\* with no bound userId or with another one it is the empty string; the
\* resolver always answers with a string
C12_EmailOnlyToOwner ==
    \A c \in Clients :
        resp[c].op = "email" =>
            LET user == users[resp[c].user]
                viewer == SessionUserId(c, cookie[c])
            IN  /\ resp[c].kind = "string"
                /\ resp[c].arg = user.email <=> viewer = user.id
                /\ viewer # user.id => resp[c].arg = <<>>

\* C12 witness: one session has been shown its own email, while a session bound
\* to another user has been shown the empty string for the same user
C12_Witness ==
    \E c, d \in Clients :
        /\ resp[c].op = "email" /\ resp[d].op = "email"
        /\ resp[c].user = resp[d].user
        /\ resp[c].arg = users[resp[c].user].email
        /\ SessionUserId(d, cookie[d]) \notin {0, resp[d].user}
        /\ resp[d].arg = <<>>

(* ======================= register: validation ========================= *)

\* the field the rules name for an input, taken in the order username, email,
\* password
FirstFailingRule(options) ==
    IF Len(options.username) < 3 THEN "username"
    ELSE IF \A i \in 1..Len(options.email) : options.email[i] # "@" THEN "email"
    ELSE IF Len(options.password) < 3 THEN "password"
    ELSE "none"

\* C13: register validates username, email, password in this order and stops
\* at the first failing rule.  An input that fails a rule is answered at once
\* with one field error on the first failing field; no hash is computed and no
\* insert is started for it, and the users and the sessions stay as they were.
\* Only an input that passes every rule reaches the hash and the insert.
C13_RegisterValidationOrder ==
    /\ \A options \in RegisterInputs : RegisterInvalid(options) = FirstFailingRule(options)
    /\ [][\A c \in Clients :
            /\ pc[c] = "idle" /\ resp'[c] # resp[c] /\ resp'[c].op = "register" =>
                  /\ resp'[c].kind = "errors"
                  /\ pc'[c] = "idle"
                  /\ UNCHANGED <<users, written, sessionStore, cookie, nextGen>>
                  /\ resp'[c].field \in {"username", "email", "password"}
            /\ pc[c] = "idle" /\ pc'[c] = "reg_insert" =>
                  FirstFailingRule(req'[c]) = "none"
         ]_vars

\* C13 witness: a register call has been answered with the password rule's
\* error, and another with the username rule's, while no row was inserted
C13_Witness ==
    \E c, d \in Clients :
        /\ resp[c].op = "register" /\ resp[c].kind = "errors" /\ resp[c].field = "password"
        /\ resp[d].op = "register" /\ resp[d].kind = "errors" /\ resp[d].field = "username"
        /\ users = <<>>

(* ======================= register: uniqueness ========================= *)

\* C14: username and email are globally unique.  No two rows of the user table
\* share a username and no two share an email, however the register calls
\* interleave; two register calls that have both returned a user have returned
\* different rows, so of the calls colliding on a username or an email at most
\* one has returned a user
C14_UsernameAndEmailUnique ==
    /\ \A i, j \in 1..Len(users) :
          i # j => /\ users[i].username # users[j].username
                   /\ users[i].email # users[j].email
    /\ \A c, d \in Clients :
          /\ c # d
          /\ resp[c].op = "register" /\ resp[c].kind = "user"
          /\ resp[d].op = "register" /\ resp[d].kind = "user"
          => /\ resp[c].user # resp[d].user
             /\ users[resp[c].user].username # users[resp[d].user].username
             /\ users[resp[c].user].email # users[resp[d].user].email

\* C14 witness: of two register calls with the same email and different
\* usernames, one has returned a user and the other the email conflict
C14_Witness ==
    \E c, d \in Clients :
        /\ resp[c].op = "register" /\ resp[c].kind = "user"
        /\ resp[d].op = "register" /\ resp[d].kind = "errors"
        /\ resp[d].field = "email"
        /\ resp[d].message # RegisterInvalidMessage("email")
        /\ Len(users) = 1

(* ========================== stored passwords ========================== *)

\* C15: the stored password is never plaintext.  In every reachable state the
\* password column of each row is an argon2 digest, the output of the hash
\* function on the password supplied to the register or changePassword call
\* that wrote the column last, and it verifies against that password
C15_PasswordStoredHashed ==
    \A i \in 1..Len(users) :
        /\ users[i].password.alg = "argon2"
        /\ \E salt \in Salts : users[i].password = Argon2Hash(written[i].plain, salt)
        /\ written[i].by \in {"register", "changePassword"}
        /\ Argon2Verify(users[i].password, written[i].plain)

\* C15 witness: a row written by register has had its password rewritten by
\* changePassword, with a password other than the one it was registered with
C15_Witness ==
    /\ Len(users) = 1
    /\ written[1] = [by |-> "changePassword", plain |-> Pw2]
    /\ ~Argon2Verify(users[1].password, BobOptions.password)

(* ============================== loaders =============================== *)

HeldLoaders(c) == {context[c][kind] : kind \in LoaderKinds} \ {0}

\* C16: the user loader and the vote loader are made anew for each request and
\* never reused.  The contexts of two requests in flight share no loader; the
\* loaders a new context gets were never returned by a constructor before (so
\* no earlier or concurrent request ever held them) and have empty caches; and
\* a loader changes only in a step of the request whose context holds it
C16_LoadersFreshPerRequest ==
    /\ [](\A c, d \in Clients : c # d => HeldLoaders(c) \cap HeldLoaders(d) = {})
    /\ [](\A c \in Clients : \A id \in HeldLoaders(c) : id < nextLoader)
    /\ [][\A c \in Clients :
            /\ pc[c] = "idle" /\ pc'[c] = "resolving" =>
                  /\ context'[c].userLoader # context'[c].updootLoader
                  /\ \A kind \in LoaderKinds :
                        /\ context'[c][kind] >= nextLoader
                        /\ context'[c][kind] < nextLoader'
                        /\ loaders'[context'[c][kind]] = NewLoader(kind)
                  /\ \A d \in Clients \ {c} :
                        \A id \in HeldLoaders(d) : loaders'[id] = loaders[id]
            /\ pc[c] = "resolving" /\ pc'[c] = "resolving" =>
                  \A id \in LoaderIds \ HeldLoaders(c) :
                      loaders'[id] # loaders[id] =>
                          \E d \in Clients \ {c} : id \in HeldLoaders(d)
         ]_vars

\* C16 witness: after an earlier request has ended, two requests are in flight
\* at once; one has cached a user key in its loader and the other, holding
\* other loaders, has nothing cached under that key
C16_Witness ==
    \E c, d \in Clients :
        /\ c # d
        /\ pc[c] = "resolving" /\ pc[d] = "resolving"
        /\ nextLoader > 5
        /\ loaders[context[c].userLoader].cache[1] # 0
        /\ loaders[context[d].userLoader].cache[1] = 0

\* the keys of the example, in the order they are loaded
ExampleKeys == <<1, 2, 2, 3>>

ExampleLoads == [k \in UserKeys |-> Cardinality({i \in DOMAIN ExampleKeys : ExampleKeys[i] = k})]

\* how often the bulk fetch of loader l was handed the key
TimesFetched(l, key) ==
    Cardinality({ <<f, i>> \in (DOMAIN l.fetches) \X (1..Cardinality(UserKeys) * MaxLoadsPerKey) :
                    i \in DOMAIN l.fetches[f] /\ l.fetches[f][i] = key })

\* C17: a loader fetches a key at most once per request and hands every caller
\* of the key the same result.  For the loaders of a request in flight: however
\* often a key is loaded it is handed to the bulk fetch at most once, and all
\* callers of load for it hold one and the same promise, so one value.  When
\* the keys 1, 2, 2, 3 have been loaded before the first dispatch, the dispatch
\* is one bulk fetch over exactly the keys 1, 2, 3, each once, and it settles
\* the promise both callers of key 2 hold
C17_OneFetchPerKey ==
    /\ [](\A c \in Clients : context[c] # NoContext =>
            LET l == loaders[context[c].userLoader]
            IN  \A key \in UserKeys :
                   /\ TimesFetched(l, key) <= 1
                   /\ Cardinality(l.handed[key]) <= 1
                   /\ l.loads[key] > 0 => Cardinality(l.handed[key]) = 1)
    /\ [][\A c \in Clients :
            /\ pc[c] = "resolving" /\ pc'[c] = "resolving"
            /\ loaders[context[c].userLoader].loads = ExampleLoads
            /\ loaders[context[c].userLoader].fetches = <<>>
            /\ loaders'[context[c].userLoader].fetches # <<>>
            => LET l == loaders'[context[c].userLoader]
               IN  /\ Len(l.fetches) = 1
                   /\ Len(l.fetches[1]) = 3
                   /\ {l.fetches[1][i] : i \in 1..Len(l.fetches[1])} = {1, 2, 3}
                   /\ l.queue = <<>>
                   /\ \A p \in l.handed[2] : l.promises[p].value # Pending
         ]_vars

\* C17 witness: the keys 1, 2, 2, 3 were loaded in one request and fetched in
\* one bulk fetch; the two callers of key 2 hold the promise that resolved to
\* absent, the caller of key 1 the registered user
C17_Witness ==
    \E c \in Clients :
        /\ pc[c] = "resolving"
        /\ LET l == loaders[context[c].userLoader]
           IN  /\ l.loads = ExampleLoads
               /\ Len(l.fetches) = 1
               /\ l.promises[l.cache[1]].value = 1
               /\ l.handed[2] = {l.cache[2]}
               /\ l.promises[l.cache[2]].value = Absent

(* ====================== effects of changePassword ===================== *)

\* C18: the effects of a successful changePassword(token, p) for user u.  Its
\* update leaves u's stored password a digest of p and of no other password;
\* when it returns the user, the token's key is absent from the token store
\* and the calling session is bound to u.id, whatever userId it was bound to
\* before; and a login with u's email that finds the password last written by
\* changePassword succeeds with that password and is answered with a
\* password-field error with any other, the previous one included
C18_ChangePasswordEffects ==
    [][\A c \in Clients :
         /\ ChangeUpdate(c) =>
               /\ Argon2Verify(users'[req[c].uid].password, req[c].password)
               /\ \A q \in Passwords \ {req[c].password} :
                     ~Argon2Verify(users'[req[c].uid].password, q)
         /\ ChangeDel(c) =>
               /\ resp'[c].kind = "user" /\ resp'[c].user = req[c].uid
               /\ redis'[Key(req[c].token)] = NoEntry
               /\ cookie'[c] # 0
               /\ sessionStore'[<<c, cookie'[c]>>] = req[c].uid
         /\ /\ LoginFind(c)
            /\ FindOneByEmail(req[c].email) # NoUser
            /\ written[FindOneByEmail(req[c].email).id].by = "changePassword"
            => IF req[c].password = written[FindOneByEmail(req[c].email).id].plain
               THEN /\ resp'[c] = RespUser("login", FindOneByEmail(req[c].email).id)
                    /\ sessionStore'[<<c, cookie'[c]>>] = FindOneByEmail(req[c].email).id
               ELSE /\ resp'[c].kind = "errors"
                    /\ resp'[c].field = "password"
      ]_vars

\* C18 witness: the client that registered both accounts in one session has
\* redeemed the token of the first account and its session is bound to that
\* account; the token is gone, and a login of the other client with the
\* account's previous password has been answered with the password error
C18_Witness ==
    \E c, d \in Clients :
        /\ c # d
        /\ Len(users) = 2
        /\ resp[c].op = "changePassword" /\ resp[c].kind = "user"
        /\ users[resp[c].user].email = BobAtX
        /\ resp[c].late = FALSE
        /\ cookie[c] = 1 /\ nextGen[c] = 2
        /\ sessionStore[<<c, 1>>] = resp[c].user
        /\ redis[Key(resp[c].arg)] = NoEntry
        /\ written[resp[c].user] = [by |-> "changePassword", plain |-> Pw2]
        /\ resp[d] = RespErrors("login", "password", "This password is not valid !")
        /\ cookie[d] = 0
        /\ users[resp[c].user].id = 1

(* ======================= calls that return errors ===================== *)

Stores == <<users, redis, sessionStore, cookie, nextGen>>

\* C19: a call that returns field errors changes nothing.  The step in which
\* register, login or changePassword answers a client with an errors list
\* leaves every User row, every entry of the token store and every session as
\* they were; the steps of a call before its answer write nothing either,
\* except the password update of changePassword, and a call that has run that
\* update always returns the user.  So a rejected changePassword does not
\* delete the token and a failed login leaves the session bound as it was.
C19_ErrorsChangeNothing ==
    [][\A c \in Clients :
         /\ resp'[c] # resp[c] /\ resp'[c].kind = "errors" =>
               /\ resp'[c].op \in {"register", "login", "changePassword"}
               /\ UNCHANGED Stores
         /\ pc[c] \in {"idle", "reg_insert", "login_find", "cp_get", "cp_find"}
            /\ pc'[c] \in {"reg_insert", "login_find", "cp_get", "cp_find", "cp_update"}
            /\ pc'[c] # pc[c]
            => UNCHANGED Stores
         /\ pc[c] \in {"cp_update", "cp_del"} /\ pc'[c] # pc[c] =>
               \/ pc'[c] = "cp_del"
               \/ resp'[c].kind = "user"
      ]_vars

\* C19 witness: a login has failed on a session that is still bound to a user,
\* and a changePassword was rejected for its short password while the token it
\* named is still in the store
C19_Witness ==
    \E c, d \in Clients :
        /\ resp[c].op = "login" /\ resp[c].kind = "errors"
        /\ SessionUserId(c, cookie[c]) \in 1..Len(users)
        /\ resp[d].op = "changePassword" /\ resp[d].kind = "errors"
        /\ resp[d].message = "Password should be at least 3 characters long !"
        /\ RedisGet(Key(resp[d].arg)) # Null

(* ============================= references ============================= *)

\* C20: references never dangle.  In every reachable state the userId of each
\* stored session and the userId held by each entry of the token store is the
\* id of a row of the user table; so me() has never answered null to a session
\* with a bound userId, and changePassword has never answered that the user
\* does not exist
C20_ReferencesNeverDangle ==
    /\ \A s \in Sids : sessionStore[s] # 0 => FindOneById(sessionStore[s]) # NoUser
    /\ \A k \in Keys :
          redis[k] # NoEntry =>
              /\ ParseInt(redis[k].val) # NaN
              /\ FindOneById(ParseInt(redis[k].val)) # NoUser
    /\ \A c \in Clients :
          /\ ~(resp[c] = RespNull("me") /\ HasLiveSession(c))
          /\ resp[c].message # "This user doesn't exist !"
          /\ pc[c] \in {"cp_update", "cp_del"} => FindOneById(req[c].uid) # NoUser

\* C20 witness: a reset token is stored for the user while one session is bound
\* to the user and was answered by me() with the user
C20_Witness ==
    \E c \in Clients, k \in Keys :
        /\ redis[k] # NoEntry
        /\ ParseInt(redis[k].val) = 1
        /\ resp[c] = RespUser("me", 1)
        /\ SessionUserId(c, cookie[c]) = 1

====
